---- MODULE Spec2Model ----
(***************************************************************************)
(* A model of whisper_mps.py: the entry point main() with its CPU retry,   *)
(* the patched torch.Tensor.to (patched_to), the patched                   *)
(* torch.nn.Module._apply (patched_apply) and the patched                  *)
(* whisper.load_model (optimized_load_model).                              *)
(*                                                                         *)
(* The wrapped collaborators (whisper's cli, torch's Tensor.to, the        *)
(* transform fn handed to _apply) are opaque: each call's outcome is       *)
(* drawn from a small set of results and raised exceptions.                *)
(*                                                                         *)
(* Four specifications share the variables:                                *)
(*   Spec       one run of the script (__main__ + main)                    *)
(*   SpecTo     one call of patched_to                                     *)
(*   SpecApply  one call of patched_apply on a module tree                 *)
(*   SpecLoad   one call of optimized_load_model                           *)
(***************************************************************************)
EXTENDS Integers, Sequences, FiniteSets, TLC

VARIABLES
    pc,         \* position of the script: start, try, except, main_done, exited
    argv,       \* sys.argv
    using_mps,  \* main's local using_mps
    calls,      \* history: sys.argv as seen by each invocation of cli()
    outcomes,   \* history: the outcome of each invocation of cli()
    pending,    \* the exception raised inside main's try block, being handled
    args,       \* main's local args (sys.argv[1:] when the rewrite starts)
    new_args,   \* main's local new_args (the rewritten list)
    mainOut,    \* how main() ended: a returned value or a raised exception
    exitCode,   \* the process exit status
    log,        \* the records written to the logger, in order
    to_pc,      \* position inside patched_to: idle, try, except, done
    to_self,    \* the tensor patched_to is called on
    to_P,       \* the transfer parameters (*args, **kwargs)
    to_fails,   \* the behaviour of _original_to on the sparse and the dense form
    to_calls,   \* history: the tensors handed to _original_to
    to_exc,     \* the NotImplementedError caught in patched_to
    to_out,     \* how patched_to ended
    ap_pc,      \* position inside patched_apply: idle, try, except, done
    ap_mod,     \* the module tree as patched_apply was handed it
    ap_cur,     \* the module tree as it is now
    ap_exc,     \* the NotImplementedError caught in patched_apply
    ap_out,     \* how patched_apply ended
    ld_pc,      \* position inside optimized_load_model: idle, call, loaded,
                \* optimized, done
    ld_args,    \* its arguments name, device and in_memory
    ld_loader,  \* what original_load_model does in this call
    ld_model,   \* the loaded model: whether it is in training mode
    ld_cleared, \* how often torch.mps.empty_cache() was called
    ld_out      \* how optimized_load_model ended

mainVars == <<pc, argv, using_mps, calls, outcomes, pending, args, new_args,
              mainOut, exitCode>>
toVars == <<to_pc, to_self, to_P, to_fails, to_calls, to_exc, to_out>>
apVars == <<ap_pc, ap_mod, ap_cur, ap_exc, ap_out>>
ldVars == <<ld_pc, ld_args, ld_loader, ld_model, ld_cleared, ld_out>>
vars == <<mainVars, toVars, apVars, ldVars, log>>

(***************************************************************************)
(* Bounds of the model                                                     *)
(***************************************************************************)
\* the longest argument list (after argv[0]) drawn exhaustively
MaxArgs == 3
\* the most parameters and buffers in a module tree
MaxItems == 2

(***************************************************************************)
(* Strings                                                                 *)
(***************************************************************************)
\* str.startswith
StartsWith(s, p) == Len(s) >= Len(p) /\ SubSeq(s, 1, Len(p)) = p

\* the `in` operator on two strings
Contains(s, p) ==
    \E i \in 1..(Len(s) - Len(p) + 1) : SubSeq(s, i, i + Len(p) - 1) = p

\* the `in` operator on a list
InList(x, s) == \E i \in 1..Len(s) : s[i] = x

\* list.remove(x): drops the first occurrence
ListRemove(s, x) ==
    LET i == CHOOSE k \in 1..Len(s) : s[k] = x /\ \A j \in 1..(k - 1) : s[j] # x
    IN SubSeq(s, 1, i - 1) \o SubSeq(s, i + 1, Len(s))

SeqsUpTo(S, n) == UNION {[1..k -> S] : k \in 0..n}

(***************************************************************************)
(* Exceptions                                                              *)
(***************************************************************************)
SparseMarker == "aten::_sparse_coo_tensor_with_dims_and_tensors"

SparseFailure ==
    [type |-> "NotImplementedError",
     msg  |-> "Could not run 'aten::_sparse_coo_tensor_with_dims_and_tensors' with arguments from the 'SparseMPS' backend.",
     code |-> 0]
OtherUnsupported ==
    [type |-> "NotImplementedError",
     msg  |-> "The operator 'aten::_linalg_solve_ex.result' is not currently implemented for the MPS device.",
     code |-> 0]
\* not a NotImplementedError, although its message quotes the operation
RuntimeFailure ==
    [type |-> "RuntimeError",
     msg  |-> "MPS backend out of memory while running aten::_sparse_coo_tensor_with_dims_and_tensors",
     code |-> 0]
ValueFailure ==
    [type |-> "ValueError", msg |-> "unsupported language: xx", code |-> 0]
SystemExitOf(c) == [type |-> "SystemExit", msg |-> "", code |-> c]
NoException == [type |-> "none", msg |-> "", code |-> 0]

\* Python's built-in exception hierarchy, as far as the script's except
\* clauses can tell the classes apart
IsInstance(e, cls) ==
    CASE cls = "NotImplementedError" -> e.type = "NotImplementedError"
      [] cls = "Exception" ->
            e.type \in {"NotImplementedError", "RuntimeError", "ValueError"}
      [] OTHER -> FALSE

HasMarkerAlways(e) == TRUE

\* a marker test that counts only when the accelerator request was detected
HasMarkerIfMps(e) == using_mps /\ Contains(e.msg, SparseMarker)

\* 'aten::_sparse_coo_tensor_with_dims_and_tensors' in str(e)
HasMarker(e) == Contains(e.msg, SparseMarker)

(***************************************************************************)
(* Values and outcomes of a call                                           *)
(***************************************************************************)
NoneValue == [t |-> "none", v |-> 0]
IntValue(n) == [t |-> "int", v |-> n]
ObjValue == [t |-> "object", v |-> 0]

Returned(v) == [kind |-> "return", val |-> v, exc |-> NoException]
Raised(e) == [kind |-> "raise", val |-> NoneValue, exc |-> e]
NotEnded == [kind |-> "running", val |-> NoneValue, exc |-> NoException]

\* what the wrapped cli() may do: return a result, raise, or call sys.exit
CliResults == {NoneValue, IntValue(0), IntValue(1), ObjValue}
CliExceptions == {SparseFailure, OtherUnsupported, RuntimeFailure, ValueFailure,
                  SystemExitOf(0), SystemExitOf(1), SystemExitOf(2)}
CliOutcomes == {Returned(v) : v \in CliResults} \cup {Raised(e) : e \in CliExceptions}

(***************************************************************************)
(* main(): accelerator detection, lines 137-150                            *)
(***************************************************************************)
ProgName == "whisper_mps.py"

\* the for loop over sys.argv with its two break conditions
DetectMps(a) ==
    \E i \in 1..Len(a) :
        \/ a[i] = "--device" /\ i + 1 <= Len(a) /\ a[i + 1] = "mps"
        \/ StartsWith(a[i], "--device=mps")

(***************************************************************************)
(* main(): the argument rewrite of the retry path, lines 175-194           *)
(***************************************************************************)
\* the loop body without the skip of the value token
RewriteStepNoSkip(st, arg) ==
    IF arg = "--device"
    THEN [new_args |-> st.new_args \o <<"--device", "cpu">>, skip_next |-> FALSE]
    ELSE IF StartsWith(arg, "--device=")
    THEN [new_args |-> Append(st.new_args, "--device=cpu"), skip_next |-> FALSE]
    ELSE IF arg = "--fp16"
    THEN [new_args |-> st.new_args \o <<"--fp16", "False">>, skip_next |-> FALSE]
    ELSE IF StartsWith(arg, "--fp16=")
    THEN [new_args |-> Append(st.new_args, "--fp16=False"), skip_next |-> FALSE]
    ELSE [new_args |-> Append(st.new_args, arg), skip_next |-> FALSE]

\* a loop body without the two startswith branches: '--device=...' and
\* '--fp16=...' are copied as they are
RewriteStepJoinKept(st, arg) ==
    IF st.skip_next
    THEN [new_args |-> st.new_args, skip_next |-> FALSE]
    ELSE IF arg = "--device"
    THEN [new_args |-> st.new_args \o <<"--device", "cpu">>, skip_next |-> TRUE]
    ELSE IF arg = "--fp16"
    THEN [new_args |-> st.new_args \o <<"--fp16", "False">>, skip_next |-> TRUE]
    ELSE [new_args |-> Append(st.new_args, arg), skip_next |-> FALSE]

\* one iteration of `for i, arg in enumerate(args)`; st holds the locals
\* new_args and skip_next
RewriteStep(st, arg) ==
    IF st.skip_next
    THEN [new_args |-> st.new_args, skip_next |-> FALSE]
    ELSE IF arg = "--device"
    THEN [new_args |-> st.new_args \o <<"--device", "cpu">>, skip_next |-> TRUE]
    ELSE IF StartsWith(arg, "--device=")
    THEN [new_args |-> Append(st.new_args, "--device=cpu"), skip_next |-> FALSE]
    ELSE IF arg = "--fp16"
    THEN [new_args |-> st.new_args \o <<"--fp16", "False">>, skip_next |-> TRUE]
    ELSE IF StartsWith(arg, "--fp16=")
    THEN [new_args |-> Append(st.new_args, "--fp16=False"), skip_next |-> FALSE]
    ELSE [new_args |-> Append(st.new_args, arg), skip_next |-> FALSE]

RECURSIVE RewriteLoop(_, _, _)
RewriteLoop(a, i, st) ==
    IF i > Len(a) THEN st ELSE RewriteLoop(a, i + 1, RewriteStep(st, a[i]))

\* new_args after the loop, from new_args = [] and skip_next = False
RewriteArgs(a) == RewriteLoop(a, 1, [new_args |-> <<>>, skip_next |-> FALSE]).new_args

(***************************************************************************)
(* __main__: the exit status, lines 203-208                                *)
(***************************************************************************)
\* sys.exit(v): None is 0, an int is the status, any other object is 1
ExitStatus(v) ==
    CASE v.t = "none" -> 0
      [] v.t = "int" -> v.v % 256
      [] OTHER -> 1

\* a handler that swallows the failure and exits normally
TopLevelStatusSwallow(out) ==
    IF out.kind = "return" THEN ExitStatus(out.val)
    ELSE IF IsInstance(out.exc, "Exception") THEN 0
    ELSE ExitStatus(IntValue(out.exc.code))

\* try: sys.exit(main()) / except Exception: sys.exit(1); a SystemExit is
\* no Exception and ends the process with its own code
TopLevelStatus(out) ==
    IF out.kind = "return" THEN ExitStatus(out.val)
    ELSE IF IsInstance(out.exc, "Exception") THEN 1
    ELSE ExitStatus(IntValue(out.exc.code))

(***************************************************************************)
(* The script's run: __main__ and main()                                   *)
(***************************************************************************)
Tokens == {"--device", "--fp16", "--device=mps", "--fp16=True", "--benchmark",
           "mps", "cpu", "False", "input.wav"}

\* the argument lists the spec gives as examples
ExampleArgs == {<<"--device", "mps", "--fp16", "True", "input.wav">>,
                <<"--device=mps", "--fp16=True">>,
                <<"--device", "cpu", "--fp16", "False">>}

ArgLists == SeqsUpTo(Tokens, MaxArgs) \cup ExampleArgs

IdleMain ==
    /\ pc = "idle" /\ argv = <<>> /\ using_mps = FALSE
    /\ calls = <<>> /\ outcomes = <<>> /\ pending = NoException
    /\ args = <<>> /\ new_args = <<>>
    /\ mainOut = NotEnded /\ exitCode = -1

IdleTo ==
    /\ to_pc = "idle" /\ to_self = [is_sparse |-> FALSE, device |-> "cpu"]
    /\ to_P = "cpu"
    /\ to_fails = [sparse |-> NoException, dense |-> NoException]
    /\ to_calls = <<>> /\ to_exc = NoException
    /\ to_out = [kind |-> "running",
                 result |-> [is_sparse |-> FALSE, device |-> "none"],
                 exc |-> NoException]

IdleApply ==
    /\ ap_pc = "idle"
    /\ ap_mod = [params |-> <<>>, buffers |-> <<>>, children |-> <<>>, applies |-> 0]
    /\ ap_cur = ap_mod
    /\ ap_exc = NoException
    /\ ap_out = NotEnded

NoModel == [loaded |-> FALSE, training |-> FALSE]
LoadNotEnded == [kind |-> "running", model |-> NoModel, exc |-> NoException]

IdleLoad ==
    /\ ld_pc = "idle"
    /\ ld_args = [name |-> "tiny", device |-> "None", in_memory |-> FALSE]
    /\ ld_loader = LoadNotEnded
    /\ ld_model = NoModel
    /\ ld_cleared = 0
    /\ ld_out = LoadNotEnded

Init ==
    /\ pc = "start"
    /\ argv \in {<<ProgName>> \o a : a \in ArgLists}
    /\ using_mps = FALSE
    /\ calls = <<>> /\ outcomes = <<>> /\ pending = NoException
    /\ args = <<>> /\ new_args = <<>>
    /\ mainOut = NotEnded /\ exitCode = -1
    /\ log = <<>>
    /\ IdleTo /\ IdleApply /\ IdleLoad

\* lines 135-150: log the arguments, detect the accelerator request
Detect ==
    /\ pc = "start"
    /\ using_mps' = DetectMps(argv)
    /\ log' = log \o <<"info: Starting whisper_mps",
                       IF DetectMps(argv) THEN "info: Running with MPS"
                                          ELSE "info: Running with CPU">>
    /\ pc' = "try"
    /\ UNCHANGED <<argv, calls, outcomes, pending, args, new_args, mainOut,
                   exitCode, toVars, apVars, ldVars>>

\* lines 152-167: the try block; o is what this invocation of cli() does
RunCli ==
    /\ pc = "try"
    /\ \E o \in CliOutcomes :
        LET bench == InList("--benchmark", argv)
            passed == IF bench THEN ListRemove(argv, "--benchmark") ELSE argv
        IN /\ argv' = passed
           /\ calls' = Append(calls, passed)
           /\ outcomes' = Append(outcomes, o)
           /\ log' = log
                \o (IF bench THEN <<"info: Running in benchmark mode">>
                             ELSE <<"info: Attempting to run whisper">>)
                \o (IF bench /\ o.kind = "return"
                    THEN <<"info: Transcription completed">> ELSE <<>>)
           /\ IF o.kind = "return"
              THEN /\ mainOut' = o
                   /\ pending' = pending
                   /\ pc' = "main_done"
              ELSE /\ mainOut' = mainOut
                   /\ pending' = o.exc
                   /\ pc' = "except"
    /\ UNCHANGED <<using_mps, args, new_args, exitCode, toVars, apVars, ldVars>>

\* lines 168-196: the sparse failure; rewrite sys.argv and run cli() again.
\* The second call sits in the except clause: whatever it raises leaves main
RetryOnCpu ==
    /\ pc = "except"
    /\ IsInstance(pending, "NotImplementedError")
    /\ HasMarker(pending)
    /\ \E o \in CliOutcomes :
        LET a == SubSeq(argv, 2, Len(argv))
            n == RewriteArgs(a)
            retried == <<argv[1]>> \o n
        IN /\ args' = a
           /\ new_args' = n
           /\ argv' = retried
           /\ calls' = Append(calls, retried)
           /\ outcomes' = Append(outcomes, o)
           /\ mainOut' = o
    /\ log' = log \o <<"error: NotImplementedError",
                       "warning: Falling back to CPU",
                       "info: Retrying with CPU">>
    /\ pc' = "main_done"
    /\ UNCHANGED <<using_mps, pending, exitCode, toVars, apVars, ldVars>>

\* lines 168-170, 197-198: another NotImplementedError is logged and re-raised
ReraiseUnsupported ==
    /\ pc = "except"
    /\ IsInstance(pending, "NotImplementedError")
    /\ ~HasMarker(pending)
    /\ log' = Append(log, "error: NotImplementedError")
    /\ mainOut' = Raised(pending)
    /\ pc' = "main_done"
    /\ UNCHANGED <<argv, using_mps, calls, outcomes, pending, args, new_args,
                   exitCode, toVars, apVars, ldVars>>

\* lines 199-201: any other Exception is logged and re-raised
ReraiseUnexpected ==
    /\ pc = "except"
    /\ ~IsInstance(pending, "NotImplementedError")
    /\ IsInstance(pending, "Exception")
    /\ log' = Append(log, "error: Unexpected error")
    /\ mainOut' = Raised(pending)
    /\ pc' = "main_done"
    /\ UNCHANGED <<argv, using_mps, calls, outcomes, pending, args, new_args,
                   exitCode, toVars, apVars, ldVars>>

\* lines 152-201: a SystemExit matches no except clause of main
PassSystemExit ==
    /\ pc = "except"
    /\ ~IsInstance(pending, "Exception")
    /\ mainOut' = Raised(pending)
    /\ pc' = "main_done"
    /\ UNCHANGED <<argv, using_mps, calls, outcomes, pending, args, new_args,
                   exitCode, log, toVars, apVars, ldVars>>

\* lines 203-208: sys.exit(main()), and sys.exit(1) on an Exception
TopLevel ==
    /\ pc = "main_done"
    /\ exitCode' = TopLevelStatus(mainOut)
    /\ log' = IF mainOut.kind = "raise" /\ IsInstance(mainOut.exc, "Exception")
              THEN Append(log, "error: Fatal error") ELSE log
    /\ pc' = "exited"
    /\ UNCHANGED <<argv, using_mps, calls, outcomes, pending, args, new_args,
                   mainOut, toVars, apVars, ldVars>>

Next ==
    \/ Detect
    \/ RunCli
    \/ RetryOnCpu
    \/ ReraiseUnsupported
    \/ ReraiseUnexpected
    \/ PassSystemExit
    \/ TopLevel

Spec == Init /\ [][Next]_vars

(***************************************************************************)
(* Properties of the script's run (checked under Spec)                     *)
(***************************************************************************)
\* the retry path was taken: the rewrite ran and cli() was invoked again
Retried == Len(calls) = 2

BareFlag(tok) == tok \in {"--device", "--fp16"}
JoinFlag(tok) == StartsWith(tok, "--device=") \/ StartsWith(tok, "--fp16=")

\* the part each token plays when the list is read from the left: a bare
\* flag takes the token after it as its value, whatever that token is
RECURSIVE Roles(_)
Roles(s) ==
    IF s = <<>> THEN <<>>
    ELSE IF BareFlag(Head(s))
    THEN IF Len(s) = 1 THEN <<"flag">>
         ELSE <<"flag", "value">> \o Roles(Tail(Tail(s)))
    ELSE IF JoinFlag(Head(s)) THEN <<"join">> \o Roles(Tail(s))
    ELSE <<"other">> \o Roles(Tail(s))

\* the list ends in a bare flag that has no value after it
Dangling(s) == s # <<>> /\ Roles(s)[Len(s)] = "flag"

\* every argument that is neither a flag of the two kinds nor a flag's value
\* is at its place, unchanged, and no such argument is new
OthersKept(old, new) ==
    /\ Len(new) >= Len(old)
    /\ \A i \in 1..Len(old) : Roles(old)[i] = "other" => new[i] = old[i]
    /\ \A i \in 1..Len(new) :
          Roles(new)[i] = "other" => i <= Len(old) /\ Roles(old)[i] = "other"

\* C1: main() invokes cli() at most twice; the second invocation follows a
\* first one that raised the NotImplementedError carrying the sparse marker,
\* and whatever the second invocation does is how main() ends: its failure
\* leaves main() with sys.argv as the retry had it, no further attempt made.
C1_AtMostOneRetry ==
    /\ Len(calls) <= 2
    /\ Len(outcomes) = Len(calls)
    /\ Len(calls) = 2 => outcomes[1] = Raised(SparseFailure)
    /\ (Len(calls) = 2 /\ pc \in {"main_done", "exited"}) =>
          /\ mainOut = outcomes[2]
          /\ argv = calls[2]
          /\ argv = <<ProgName>> \o new_args

C1_Witness ==
    /\ pc = "exited"
    /\ Len(calls) = 2
    /\ outcomes[2] = Raised(SparseFailure)
    /\ mainOut = Raised(SparseFailure)

\* the steps main() has taken: how many times it ran cli(), whether it
\* retried, and how it ended
MainSteps == [runs |-> Len(calls), retried |-> Retried, ended |-> mainOut]

\* the steps the outcomes of cli() call for, whatever the detection found
StepsFor(outs) ==
    IF outs[1] = Raised(SparseFailure)
    THEN [runs |-> 2, retried |-> TRUE, ended |-> outs[Len(outs)]]
    ELSE [runs |-> 1, retried |-> FALSE, ended |-> outs[1]]

\* C14: the steps of main() (run, retry or not, return or re-raise) are a
\* function of what cli() did alone: whether the accelerator request was
\* detected or not, main() ends having taken the steps the outcomes of cli()
\* call for, so two runs with the same outcomes take the same steps and the
\* sparse failure leads to the retry without a detected '--device mps'.
C14_DetectionGatesNothing ==
    \A detected \in BOOLEAN :
        (using_mps = detected /\ pc \in {"main_done", "exited"}) =>
            /\ Len(outcomes) = IF outcomes[1] = Raised(SparseFailure) THEN 2 ELSE 1
            /\ MainSteps = StepsFor(outcomes)

C14_Witness ==
    /\ pc = "exited"
    /\ ~using_mps
    /\ ~DetectMps(calls[1])
    /\ outcomes[1] = Raised(SparseFailure)
    /\ Retried

\* C3 as stated: the rewrite changes nothing but the two flags and their
\* values, and the rewritten list has as many arguments as the original.
C3_NothingAddedOrDropped ==
    Retried => OthersKept(args, new_args) /\ Len(new_args) = Len(args)

\* C3 amended: the rewrite changes nothing but the two flags and their
\* values; every other argument keeps its place, none is dropped, and the
\* only argument ever added is the value 'cpu' or 'False' put after a bare
\* '--device' or '--fp16' that ends the list with no value of its own.
C3_OnlyFlagsRewritten ==
    Retried =>
        /\ OthersKept(args, new_args)
        /\ Len(new_args) = Len(args) + (IF Dangling(args) THEN 1 ELSE 0)
        /\ \A i \in 1..Len(args) :
              Roles(args)[i] \in {"flag", "join"} => Roles(new_args)[i] = Roles(args)[i]

C3_Witness ==
    /\ Retried
    /\ args = <<"input.wav", "--device">>
    /\ new_args = <<"input.wav", "--device", "cpu">>

ForcesCpu(a) ==
    \E i \in 1..Len(a) :
        \/ a[i] = "--device" /\ i < Len(a) /\ a[i + 1] = "cpu"
        \/ a[i] = "--device=cpu"

DisablesFp16(a) ==
    \E i \in 1..Len(a) :
        \/ a[i] = "--fp16" /\ i < Len(a) /\ a[i + 1] = "False"
        \/ a[i] = "--fp16=False"

\* C4: after the sparse failure the retried cli() is given an argument list
\* that names the device cpu and switches fp16 off.
C4_RetryForcesCpu ==
    Retried => ForcesCpu(calls[2]) /\ DisablesFp16(calls[2])

\* each bare '--device' and '--fp16' is followed by a value, a token that is
\* not itself one of the two bare flags
EachFlagHasValue(a) ==
    \A i \in 1..Len(a) : BareFlag(a[i]) => i < Len(a) /\ ~BareFlag(a[i + 1])

\* the rewrite as the spec words it, position by position
ReferenceRewrite(a) ==
    [i \in 1..Len(a) |->
        IF i > 1 /\ a[i - 1] = "--device" THEN "cpu"
        ELSE IF i > 1 /\ a[i - 1] = "--fp16" THEN "False"
        ELSE IF StartsWith(a[i], "--device=") THEN "--device=cpu"
        ELSE IF StartsWith(a[i], "--fp16=") THEN "--fp16=False"
        ELSE a[i]]

\* C5: on a list whose bare flags all have a value the rewrite is the
\* position-by-position reference rewrite, and the spec's two examples come
\* out as written.
C5_ReferenceRewrite ==
    Retried =>
        /\ EachFlagHasValue(args) =>
              Len(new_args) = Len(args) /\ new_args = ReferenceRewrite(args)
        /\ args = <<"--device", "mps", "--fp16", "True", "input.wav">> =>
              new_args = <<"--device", "cpu", "--fp16", "False", "input.wav">>
        /\ args = <<"--device=mps", "--fp16=True">> =>
              new_args = <<"--device=cpu", "--fp16=False">>

C5_Witness ==
    /\ Retried
    /\ args = <<"--device", "mps", "--fp16", "True", "input.wav">>
    /\ new_args = <<"--device", "cpu", "--fp16", "False", "input.wav">>

\* the list already asks for cpu and fp16 off wherever it names them
AlreadyCpu(a) ==
    \A i \in 1..Len(a) :
        /\ a[i] = "--device" => i < Len(a) /\ a[i + 1] = "cpu"
        /\ a[i] = "--fp16" => i < Len(a) /\ a[i + 1] = "False"
        /\ StartsWith(a[i], "--device=") => a[i] = "--device=cpu"
        /\ StartsWith(a[i], "--fp16=") => a[i] = "--fp16=False"

\* C15: in the list the rewrite produces, and in the argument list of the
\* retried cli(), every '--device' is directly followed by 'cpu', every
\* '--fp16' directly by 'False', every '--device=...' token is '--device=cpu'
\* and every '--fp16=...' token is '--fp16=False'.
C15_RewrittenNamesOnlyCpu ==
    Retried => AlreadyCpu(new_args) /\ AlreadyCpu(calls[2])

C15_Witness ==
    /\ Retried
    /\ args = <<"--device=mps", "--fp16", "mps">>
    /\ new_args = <<"--device=cpu", "--fp16", "False">>
    /\ calls[2] = <<ProgName>> \o new_args

\* C6: the rewrite is idempotent: rewriting the rewritten list gives it
\* back, an already-CPU list is rewritten to itself, and
\* ["--device","cpu","--fp16","False"] is returned unchanged.
C6_Idempotent ==
    Retried =>
        /\ RewriteArgs(new_args) = new_args
        /\ AlreadyCpu(args) => new_args = args
        /\ args = <<"--device", "cpu", "--fp16", "False">> => new_args = args

C6_Witness ==
    /\ Retried
    /\ args = <<"--device", "cpu", "--fp16", "False">>
    /\ new_args = <<"--device", "cpu", "--fp16", "False">>

\* C7: no invocation of cli(), first run or retry, sees '--benchmark'.
C7_BenchmarkStripped ==
    \A k \in 1..Len(calls) : ~InList("--benchmark", calls[k])

\* a failure (an Exception, what __main__ catches) left main()
FailureEscaped == mainOut.kind = "raise" /\ IsInstance(mainOut.exc, "Exception")

\* C8 as stated: the exit status is 1 exactly when a failure left main(),
\* and 0 when main() returned.
C8_ExitOneIffFailure ==
    pc = "exited" =>
        /\ exitCode = 1 <=> FailureEscaped
        /\ mainOut.kind = "return" => exitCode = 0

\* C8 amended: the exit status is 1 whenever a failure left main() and 0
\* whenever main() returned None; when cli() returns another value that
\* value is the status (an int as it is, any other object as 1), and when
\* cli() asks for an exit itself the status is the one it asked for. So a
\* status of 1 without a failure comes only from cli() returning 1 or a
\* non-int object, or from cli() exiting with 1.
C8_ExitStatus ==
    pc = "exited" =>
        /\ FailureEscaped => exitCode = 1
        /\ mainOut = Returned(NoneValue) => exitCode = 0
        /\ (mainOut.kind = "return" /\ mainOut.val.t = "int") =>
              exitCode = mainOut.val.v
        /\ (mainOut.kind = "raise" /\ mainOut.exc.type = "SystemExit") =>
              exitCode = mainOut.exc.code
        /\ exitCode = 1 =>
              \/ FailureEscaped
              \/ mainOut \in {Returned(IntValue(1)), Returned(ObjValue),
                              Raised(SystemExitOf(1))}

C8_Witness ==
    /\ pc = "exited"
    /\ Len(calls) = 2
    /\ mainOut = Raised(OtherUnsupported)
    /\ exitCode = 1

(***************************************************************************)
(* patched_to, lines 34-45                                                 *)
(***************************************************************************)
Devices == {"cpu", "mps"}
\* the transfer parameters: a device, or a dtype
TransferParams == Devices \cup {"float16"}
\* what _original_to may raise
ToExceptions == {SparseFailure, OtherUnsupported, RuntimeFailure}

NoTensor == [is_sparse |-> FALSE, device |-> "none"]
ToReturned(x) == [kind |-> "return", result |-> x, exc |-> NoException]
ToRaised(e) == [kind |-> "raise", result |-> NoTensor, exc |-> e]
ToNotEnded == [kind |-> "running", result |-> NoTensor, exc |-> NoException]

\* a to_dense that hands the tensor back as it is
ToDenseNoop(x) == x

\* a test that takes every tensor for a sparse one
IsSparseAlways(x) == TRUE

\* hasattr(self, 'is_sparse') and self.is_sparse, line 40
IsSparse(x) == x.is_sparse

\* Tensor.to_dense()
ToDense(x) == [x EXCEPT !.is_sparse = FALSE]

\* _original_to(x, *args, **kwargs): torch's own Tensor.to. It keeps the
\* layout; whether it raises on a layout is given by fails
OriginalTo(x, P, fails) ==
    LET e == IF x.is_sparse THEN fails.sparse ELSE fails.dense
    IN IF e = NoException
       THEN ToReturned([is_sparse |-> x.is_sparse,
                        device |-> IF P \in Devices THEN P ELSE x.device])
       ELSE ToRaised(e)

InitTo ==
    /\ to_pc = "try"
    /\ to_self \in [is_sparse : BOOLEAN, device : {"cpu"}]
    /\ to_P \in TransferParams
    /\ to_fails \in [sparse : ToExceptions \cup {NoException},
                     dense : ToExceptions \cup {NoException}]
    /\ ~to_self.is_sparse => to_fails.sparse = NoException
    /\ to_calls = <<>> /\ to_exc = NoException /\ to_out = ToNotEnded
    /\ log = <<>>
    /\ IdleMain /\ IdleApply /\ IdleLoad

\* lines 37-39: the first attempt; only a NotImplementedError is caught
ToTry ==
    /\ to_pc = "try"
    /\ LET o == OriginalTo(to_self, to_P, to_fails)
       IN /\ to_calls' = Append(to_calls, to_self)
          /\ IF o.kind = "raise" /\ IsInstance(o.exc, "NotImplementedError")
             THEN /\ to_exc' = o.exc
                  /\ to_out' = to_out
                  /\ to_pc' = "except"
             ELSE /\ to_exc' = to_exc
                  /\ to_out' = o
                  /\ to_pc' = "done"
    /\ UNCHANGED <<to_self, to_P, to_fails, log, mainVars, apVars, ldVars>>

\* lines 40-42: a sparse tensor is densified and transferred again
ToDensifyRetry ==
    /\ to_pc = "except"
    /\ IsSparse(to_self)
    /\ log' = Append(log, "warning: Converting sparse tensor to dense")
    /\ to_calls' = Append(to_calls, ToDense(to_self))
    /\ to_out' = OriginalTo(ToDense(to_self), to_P, to_fails)
    /\ to_pc' = "done"
    /\ UNCHANGED <<to_self, to_P, to_fails, to_exc, mainVars, apVars, ldVars>>

\* lines 43-45: on any other tensor the failure is logged and re-raised
ToReraise ==
    /\ to_pc = "except"
    /\ ~IsSparse(to_self)
    /\ log' = Append(log, "error: NotImplementedError in patched_to")
    /\ to_out' = ToRaised(to_exc)
    /\ to_pc' = "done"
    /\ UNCHANGED <<to_self, to_P, to_fails, to_calls, to_exc, mainVars, apVars, ldVars>>

NextTo == ToTry \/ ToDensifyRetry \/ ToReraise

SpecTo == InitTo /\ [][NextTo]_vars

\* the unpatched transfer of tensor x in this run
Unpatched(x) == OriginalTo(x, to_P, to_fails)
\* the dense form of the tensor patched_to was called on
DenseSelf == [is_sparse |-> FALSE, device |-> to_self.device]

\* C10: when the direct transfer of a sparse tensor raises the sparse
\* failure, patched_to ends as the original transfer of the densified
\* tensor with the same parameters does; on a tensor that is not sparse it
\* ends as the unpatched transfer does, result or raised failure.
C10_TransferGuard ==
    to_pc = "done" =>
        /\ (to_self.is_sparse /\ to_fails.sparse = SparseFailure) =>
              /\ to_out = Unpatched(DenseSelf)
              /\ to_calls = <<to_self, DenseSelf>>
        /\ ~to_self.is_sparse =>
              /\ to_out = Unpatched(to_self)
              /\ to_calls = <<to_self>>

C10_Witness ==
    /\ to_pc = "done"
    /\ to_self.is_sparse
    /\ to_fails.sparse = SparseFailure
    /\ to_P = "mps"
    /\ to_out = ToReturned([is_sparse |-> FALSE, device |-> "mps"])

\* C12: one call of patched_to hands a tensor to _original_to at most
\* twice; the second transfer is made only after the first one raised a
\* NotImplementedError on a sparse tensor, it is the transfer of the dense
\* form, and a failure it raises is how patched_to ends.
C12_AtMostOneTransferRetry ==
    /\ Len(to_calls) <= 2
    /\ Len(to_calls) >= 1 => to_calls[1] = to_self
    /\ Len(to_calls) = 2 =>
          /\ to_self.is_sparse
          /\ to_fails.sparse.type = "NotImplementedError"
          /\ to_calls[2] = DenseSelf
          /\ to_pc = "done"
          /\ to_fails.dense # NoException => to_out = ToRaised(to_fails.dense)
    /\ (to_pc = "done" /\ to_self.is_sparse
            /\ to_fails.sparse.type = "NotImplementedError") => Len(to_calls) = 2

C12_Witness ==
    /\ to_pc = "done"
    /\ Len(to_calls) = 2
    /\ to_fails.sparse = OtherUnsupported
    /\ to_out = ToRaised(RuntimeFailure)

(***************************************************************************)
(* patched_apply, lines 52-92                                              *)
(*                                                                         *)
(* A module is its _parameters, its _buffers and its children. An item (a  *)
(* parameter or a buffer) is None or a tensor; fn's outcome on a tensor is *)
(* fixed by the tensor: raises for the tensor as it is, dense_raises for   *)
(* its dense form. n counts how often a transformed value was stored for   *)
(* the item, applies how often _apply was called on a module.              *)
(***************************************************************************)
NoneItem ==
    [none |-> TRUE, is_sparse |-> FALSE, raises |-> NoException,
     dense_raises |-> NoException, n |-> 0]

DenseItems ==
    {[none |-> FALSE, is_sparse |-> FALSE, raises |-> e, dense_raises |-> e, n |-> 0] :
        e \in {NoException, OtherUnsupported, RuntimeFailure}}

SparseItems ==
    {[none |-> FALSE, is_sparse |-> TRUE, raises |-> e, dense_raises |-> d, n |-> 0] :
        e \in {NoException, SparseFailure, OtherUnsupported},
        d \in {NoException, SparseFailure, RuntimeFailure}}

ItemKinds == {NoneItem} \cup DenseItems \cup SparseItems

\* fn(x) returned and its value was stored in place of x
Stored(x) == [x EXCEPT !.n = @ + 1]

\* x.to_dense(): the dense form of the tensor
DenseOf(x) == [x EXCEPT !.is_sparse = FALSE, !.raises = x.dense_raises]

Step(items, exc, lg) == [items |-> items, exc |-> exc, log |-> lg]
Result(m, exc, lg) == [mod |-> m, exc |-> exc, log |-> lg]

\* lines 64-73 (a parameter) and 76-85 (a buffer): the body of the per-item
\* loop. A NotImplementedError of fn on a tensor that is not sparse is
\* caught and nothing is stored
FallbackItem(x, what) ==
    IF x.none THEN [item |-> x, exc |-> NoException, log |-> <<>>]
    ELSE IF x.raises = NoException
    THEN [item |-> Stored(x), exc |-> NoException, log |-> <<>>]
    ELSE IF ~IsInstance(x.raises, "NotImplementedError")
    THEN [item |-> x, exc |-> x.raises, log |-> <<>>]
    ELSE IF x.is_sparse
    THEN IF x.dense_raises = NoException
         THEN [item |-> Stored(DenseOf(x)), exc |-> NoException,
               log |-> <<"info: Converting sparse " \o what \o " to dense">>]
         ELSE [item |-> x, exc |-> x.dense_raises,
               log |-> <<"info: Converting sparse " \o what \o " to dense">>]
    ELSE [item |-> x, exc |-> NoException, log |-> <<>>]

\* the value of an expression, bound once: Only({F(x) : x \in {e}}) is
\* F(e) with e evaluated a single time
Only(S) == CHOOSE x \in S : TRUE

\* lines 63 and 75: the loop over self._parameters / self._buffers
RECURSIVE FallbackItems(_, _, _, _)
FallbackItems(items, i, what, lg) ==
    IF i > Len(items) THEN Step(items, NoException, lg)
    ELSE Only({IF r.exc # NoException
               THEN Step([items EXCEPT ![i] = r.item], r.exc, lg \o r.log)
               ELSE FallbackItems([items EXCEPT ![i] = r.item], i + 1, what,
                                  lg \o r.log) :
               r \in {FallbackItem(items[i], what)}})

\* torch's Module._apply on the items of one module: fn on each item that is
\* not None, in order, until fn raises
RECURSIVE BulkItems(_, _)
BulkItems(items, i) ==
    IF i > Len(items) THEN Step(items, NoException, <<>>)
    ELSE IF items[i].none THEN BulkItems(items, i + 1)
    ELSE IF items[i].raises # NoException THEN Step(items, items[i].raises, <<>>)
    ELSE BulkItems([items EXCEPT ![i] = Stored(@)], i + 1)

RECURSIVE PatchedApply(_, _)
RECURSIVE ApplyChildren(_, _, _)

\* `for module in self.children(): module._apply(fn)`, lines 87-88 and the
\* same loop inside torch's Module._apply: _apply is the patched one
ApplyChildren(children, i, lg) ==
    IF i > Len(children) THEN Step(children, NoException, lg)
    ELSE Only({IF r.exc # NoException
               THEN Step([children EXCEPT ![i] = r.mod], r.exc, r.log)
               ELSE ApplyChildren([children EXCEPT ![i] = r.mod], i + 1, r.log) :
               r \in {PatchedApply(children[i], lg)}})

\* _original_apply(self, fn): torch's Module._apply: the children first, then
\* the parameters, then the buffers; what was stored before fn raised stays
OriginalApply(m, lg) ==
    Only({IF c.exc # NoException
          THEN Result([m EXCEPT !.children = c.items], c.exc, c.log)
          ELSE Only({IF p.exc # NoException
                     THEN Result([m EXCEPT !.children = c.items, !.params = p.items],
                                 p.exc, c.log)
                     ELSE Only({Result([m EXCEPT !.children = c.items,
                                                 !.params = p.items,
                                                 !.buffers = b.items],
                                       b.exc, c.log) :
                                b \in {BulkItems(m.buffers, 1)}}) :
                     p \in {BulkItems(m.params, 1)}}) :
          c \in {ApplyChildren(m.children, 1, lg)}})

\* lines 60-90: the per-item pass, then the children once more
FallbackPass(m, lg) ==
    Only({IF p.exc # NoException
          THEN Result([m EXCEPT !.params = p.items], p.exc, p.log)
          ELSE Only({IF b.exc # NoException
                     THEN Result([m EXCEPT !.params = p.items, !.buffers = b.items],
                                 b.exc, b.log)
                     ELSE Only({Result([m EXCEPT !.params = p.items,
                                                 !.buffers = b.items,
                                                 !.children = c.items],
                                       c.exc, c.log) :
                                c \in {ApplyChildren(m.children, 1, b.log)}}) :
                     b \in {FallbackItems(m.buffers, 1, "buffer", p.log)}}) :
          p \in {FallbackItems(m.params, 1, "parameter",
                     Append(lg, "warning: Handling sparse tensor in Module._apply"))}})

\* lines 57-59: the except clause is entered and the marker is found
TakesFallback(e) == IsInstance(e, "NotImplementedError") /\ HasMarker(e)

\* patched_apply(self, fn), lines 54-92
PatchedApply(m, lg) ==
    Only({IF r.exc # NoException /\ TakesFallback(r.exc)
          THEN FallbackPass(r.mod, r.log)
          ELSE r :
          r \in {OriginalApply([m EXCEPT !.applies = @ + 1], lg)}})

(***************************************************************************)
(* One call of patched_apply on a module tree                              *)
(***************************************************************************)
\* the shapes of the trees: the root alone, with one child, with two
\* children, with a child and a grandchild; module k holds slots 2k-1 (its
\* parameters) and 2k (its buffers)
Shapes == {"root", "child", "children", "grandchild"}
SlotsOf(shape) == IF shape = "root" THEN 1..2
                  ELSE IF shape = "child" THEN 1..4 ELSE 1..6

\* the items of s that d puts in slot j, in order
SlotItems(s, d, j) ==
    LET idx == {i \in 1..Len(s) : d[i] = j}
    IN IF idx = {} THEN <<>>
       ELSE SubSeq(s, CHOOSE i \in idx : \A k \in idx : i <= k,
                      CHOOSE i \in idx : \A k \in idx : i >= k)

Leaf(s, d, k) ==
    [params |-> SlotItems(s, d, 2 * k - 1), buffers |-> SlotItems(s, d, 2 * k),
     children |-> <<>>, applies |-> 0]

Tree(shape, s, d) ==
    CASE shape = "root" -> Leaf(s, d, 1)
      [] shape = "child" -> [Leaf(s, d, 1) EXCEPT !.children = <<Leaf(s, d, 2)>>]
      [] shape = "children" ->
            [Leaf(s, d, 1) EXCEPT !.children = <<Leaf(s, d, 2), Leaf(s, d, 3)>>]
      [] OTHER ->
            [Leaf(s, d, 1) EXCEPT !.children =
                <<[Leaf(s, d, 2) EXCEPT !.children = <<Leaf(s, d, 3)>>]>>]

\* the ways to put the items of s, in order, into the slots of a shape
Placements(shape, s) ==
    {f \in [1..Len(s) -> SlotsOf(shape)] :
        \A i \in 1..(Len(s) - 1) : f[i] <= f[i + 1]}

InitApply ==
    /\ ap_pc = "try"
    /\ \E shape \in Shapes :
          \E s \in SeqsUpTo(ItemKinds, MaxItems) :
             \E d \in Placements(shape, s) : ap_mod = Tree(shape, s, d)
    /\ ap_cur = ap_mod
    /\ ap_exc = NoException
    /\ ap_out = NotEnded
    /\ log = <<>>
    /\ IdleMain /\ IdleTo /\ IdleLoad

\* lines 55-57: the bulk apply; only a NotImplementedError is caught
ApTry ==
    /\ ap_pc = "try"
    /\ \E r \in {OriginalApply([ap_cur EXCEPT !.applies = @ + 1], log)} :
          /\ ap_cur' = r.mod
          /\ log' = r.log
          /\ IF r.exc = NoException
             THEN /\ ap_out' = Returned(NoneValue)
                  /\ ap_exc' = ap_exc
                  /\ ap_pc' = "done"
             ELSE IF IsInstance(r.exc, "NotImplementedError")
             THEN /\ ap_out' = ap_out
                  /\ ap_exc' = r.exc
                  /\ ap_pc' = "except"
             ELSE /\ ap_out' = Raised(r.exc)
                  /\ ap_exc' = ap_exc
                  /\ ap_pc' = "done"
    /\ UNCHANGED <<ap_mod, mainVars, toVars, ldVars>>

\* lines 58-90: the marker is in the message: the per-item pass and the
\* children; `return self`, or whatever the pass raises
ApFallback ==
    /\ ap_pc = "except"
    /\ HasMarker(ap_exc)
    /\ \E r \in {FallbackPass(ap_cur, log)} :
          /\ ap_cur' = r.mod
          /\ log' = r.log
          /\ ap_out' = IF r.exc = NoException THEN Returned(NoneValue)
                       ELSE Raised(r.exc)
    /\ ap_pc' = "done"
    /\ UNCHANGED <<ap_mod, ap_exc, mainVars, toVars, ldVars>>

\* lines 91-92: another NotImplementedError is re-raised
ApReraise ==
    /\ ap_pc = "except"
    /\ ~HasMarker(ap_exc)
    /\ ap_out' = Raised(ap_exc)
    /\ ap_pc' = "done"
    /\ UNCHANGED <<ap_mod, ap_cur, ap_exc, log, mainVars, toVars, ldVars>>

NextApply == ApTry \/ ApFallback \/ ApReraise

SpecApply == InitApply /\ [][NextApply]_vars

\* every parameter and buffer of m and of its descendants that is not None
\* has had a transformed value stored, and _apply was called on every
\* descendant module
RECURSIVE AllTransformed(_)
AllTransformed(m) ==
    /\ \A i \in 1..Len(m.params) : m.params[i].none \/ m.params[i].n >= 1
    /\ \A i \in 1..Len(m.buffers) : m.buffers[i].none \/ m.buffers[i].n >= 1
    /\ \A i \in 1..Len(m.children) :
          m.children[i].applies >= 1 /\ AllTransformed(m.children[i])

\* C9: when the bulk apply raised the sparse failure and patched_apply has
\* returned, every parameter and buffer of the module and of every
\* descendant has had the transform applied and every child was entered.
C9_AllItemsTransformed ==
    (ap_pc = "done" /\ ap_exc = SparseFailure /\ ap_out.kind = "return") =>
        AllTransformed(ap_cur)

\* every parameter and buffer of the tree that is not None has had between
\* lo and hi transformed values stored
RECURSIVE CountsWithin(_, _, _)
CountsWithin(m, lo, hi) ==
    /\ \A i \in 1..Len(m.params) :
          m.params[i].none \/ (lo <= m.params[i].n /\ m.params[i].n <= hi)
    /\ \A i \in 1..Len(m.buffers) :
          m.buffers[i].none \/ (lo <= m.buffers[i].n /\ m.buffers[i].n <= hi)
    /\ \A i \in 1..Len(m.children) : CountsWithin(m.children[i], lo, hi)

\* C16: in a call of patched_apply that took the fallback path, the failed
\* bulk attempt and the per-item pass with its recursion into the children
\* together have applied the transform to no parameter or buffer of the
\* subtree twice, and to each exactly once when the call returned.
C16_EachItemOnce ==
    (ap_pc = "done" /\ ap_exc # NoException /\ HasMarker(ap_exc)) =>
        /\ CountsWithin(ap_cur, 0, 1)
        /\ ap_out.kind = "return" => CountsWithin(ap_cur, 1, 1)

\* a log entry of level warning or error
Reported(lg) ==
    \E i \in 1..Len(lg) : StartsWith(lg[i], "warning: ") \/ StartsWith(lg[i], "error: ")

\* fn raises a NotImplementedError on x and x has no dense form to fall
\* back to
Unrecoverable(x) ==
    ~x.none /\ ~x.is_sparse /\ IsInstance(x.raises, "NotImplementedError")

\* some parameter or buffer of the tree is one fn cannot be applied to
RECURSIVE HasUnrecoverable(_)
HasUnrecoverable(m) ==
    \/ \E i \in 1..Len(m.params) : Unrecoverable(m.params[i])
    \/ \E i \in 1..Len(m.buffers) : Unrecoverable(m.buffers[i])
    \/ \E i \in 1..Len(m.children) : HasUnrecoverable(m.children[i])

\* C11: no failure is dropped in silence. A failure caught in patched_to,
\* patched_apply or main() has left a warning or an error in the log by the
\* time the call has ended, and the call has ended with the fallback's
\* result or with that failure re-raised; in particular patched_apply does
\* not return normally from a tree holding a non-sparse item on which the
\* transform raises NotImplementedError.
C11_NoFailureDropped ==
    /\ (to_pc = "done" /\ to_exc # NoException) =>
          /\ Reported(log)
          /\ Len(to_calls) = 2 \/ to_out = ToRaised(to_exc)
    /\ (pc \in {"main_done", "exited"} /\ IsInstance(pending, "Exception")) =>
          /\ Reported(log)
          /\ Retried \/ mainOut = Raised(pending)
    /\ (ap_pc = "done" /\ ap_exc # NoException) =>
          /\ Reported(log)
          /\ HasMarker(ap_exc) \/ ap_out = Raised(ap_exc)
    /\ (ap_pc = "done" /\ ap_out.kind = "return") => ~HasUnrecoverable(ap_cur)

(***************************************************************************)
(* optimized_load_model, lines 99-120                                      *)
(***************************************************************************)
ModelNames == {"tiny", "base", "large"}
\* the device argument; "None" is the default None
LoadDevices == {"None", "cpu", "mps", "cuda"}

LoadReturned(m) == [kind |-> "return", model |-> m, exc |-> NoException]
LoadRaised(e) == [kind |-> "raise", model |-> NoModel, exc |-> e]

\* what original_load_model may do: return a model, in training mode or
\* not, or raise
LoaderOutcomes ==
    {LoadReturned([loaded |-> TRUE, training |-> t]) : t \in BOOLEAN}
    \cup {LoadRaised(e) : e \in {SparseFailure, OtherUnsupported, RuntimeFailure}}

\* a test that takes every device but the CPU for the accelerator
IsAcceleratorNotCpu(device) == device # "cpu"

\* device == "mps", line 108
IsAccelerator(device) == device = "mps"

InitLoad ==
    /\ ld_pc = "call"
    /\ ld_args \in [name : ModelNames, device : LoadDevices, in_memory : BOOLEAN]
    /\ ld_loader \in LoaderOutcomes
    /\ ld_model = NoModel
    /\ ld_cleared = 0
    /\ ld_out = LoadNotEnded
    /\ log = <<>>
    /\ IdleMain /\ IdleTo /\ IdleApply

\* lines 102-105: log, then the underlying loader; there is no try around it
LoadCall ==
    /\ ld_pc = "call"
    /\ log' = Append(log, "info: Loading model")
    /\ IF ld_loader.kind = "return"
       THEN /\ ld_model' = ld_loader.model
            /\ ld_out' = ld_out
            /\ ld_pc' = "loaded"
       ELSE /\ ld_model' = ld_model
            /\ ld_out' = ld_loader
            /\ ld_pc' = "done"
    /\ UNCHANGED <<ld_args, ld_loader, ld_cleared, mainVars, toVars, apVars>>

\* lines 108-116: on mps, model.eval() and torch.mps.empty_cache()
LoadOptimize ==
    /\ ld_pc = "loaded"
    /\ IsAccelerator(ld_args.device)
    /\ ld_model' = [ld_model EXCEPT !.training = FALSE]
    /\ ld_cleared' = ld_cleared + 1
    /\ log' = Append(log, "info: Pre-compiling common operations for MPS")
    /\ ld_pc' = "optimized"
    /\ UNCHANGED <<ld_args, ld_loader, ld_out, mainVars, toVars, apVars>>

\* lines 118-120: log the load time and return the model
LoadReturn ==
    /\ \/ ld_pc = "loaded" /\ ~IsAccelerator(ld_args.device)
       \/ ld_pc = "optimized"
    /\ log' = Append(log, "info: Model loaded")
    /\ ld_out' = LoadReturned(ld_model)
    /\ ld_pc' = "done"
    /\ UNCHANGED <<ld_args, ld_loader, ld_model, ld_cleared, mainVars, toVars, apVars>>

NextLoad == LoadCall \/ LoadOptimize \/ LoadReturn

SpecLoad == InitLoad /\ [][NextLoad]_vars

\* the model the loader returned, put in inference-only mode
InEvalMode(m) == [m EXCEPT !.training = FALSE]

\* C13: when optimized_load_model has ended, the post-load step (eval mode,
\* cache cleared) was made once if the loader returned a model and the
\* device is "mps" and not at all otherwise; a failure of the loader is the
\* failure of the call, with no post-load step; otherwise the call returns
\* the loader's model, changed by nothing but the post-load step.
C13_LoadGuard ==
    /\ ld_cleared <= 1
    /\ ld_cleared = 1 => ld_pc \in {"optimized", "done"}
    /\ ld_pc = "done" =>
          /\ ld_cleared = 1 <=>
                (ld_loader.kind = "return" /\ ld_args.device = "mps")
          /\ ld_loader.kind = "raise" =>
                /\ ld_out = ld_loader
                /\ ld_model = NoModel
          /\ ld_loader.kind = "return" =>
                ld_out = LoadReturned(IF ld_args.device = "mps"
                                      THEN InEvalMode(ld_loader.model)
                                      ELSE ld_loader.model)

C13_Witness ==
    /\ ld_pc = "done"
    /\ ld_args.device = "mps"
    /\ ld_loader.kind = "return"
    /\ ld_loader.model.training
    /\ ld_cleared = 1
    /\ ld_out.kind = "return"
    /\ ~ld_out.model.training

(***************************************************************************)
(* A failure without the sparse marker                                     *)
(***************************************************************************)
NoMarker(e) == e # NoException /\ ~Contains(e.msg, SparseMarker)

\* fn raises a failure without the marker on some item of the tree
RECURSIVE RaisesWithoutMarker(_)
RaisesWithoutMarker(m) ==
    \/ \E i \in 1..Len(m.params) : NoMarker(m.params[i].raises)
    \/ \E i \in 1..Len(m.buffers) : NoMarker(m.buffers[i].raises)
    \/ \E i \in 1..Len(m.children) : RaisesWithoutMarker(m.children[i])

\* C2: a failure whose message lacks the sparse marker passes through
\* patched_to, patched_apply, optimized_load_model and main() as it is:
\* patched_to makes no second transfer and no densification; patched_apply
\* makes no per-item pass after such a bulk failure and does not return
\* normally from a tree on which fn raises such a failure;
\* optimized_load_model makes no post-load step, and main() no second
\* invocation of cli().
C2_OtherFailurePropagates ==
    /\ (to_pc = "done" /\ NoMarker(Unpatched(to_self).exc)) =>
          /\ to_out = Unpatched(to_self)
          /\ to_calls = <<to_self>>
    /\ (ap_pc = "done" /\ NoMarker(ap_exc)) =>
          /\ ap_out = Raised(ap_exc)
          /\ ap_cur = OriginalApply([ap_mod EXCEPT !.applies = @ + 1], <<>>).mod
    /\ (ap_pc = "done" /\ ap_out.kind = "return") => ~RaisesWithoutMarker(ap_mod)
    /\ (ld_pc = "done" /\ NoMarker(ld_loader.exc)) =>
          /\ ld_out = ld_loader
          /\ ld_cleared = 0
    /\ (pc \in {"main_done", "exited"} /\ NoMarker(outcomes[1].exc)) =>
          /\ mainOut = outcomes[1]
          /\ Len(calls) = 1

====
